---- MODULE Spec2Model ----
(***************************************************************************)
(* Model of cloud-run/python/ai_login.py: one process invocation of main() *)
(* running the coroutine perform_login() against the browser-use delegate  *)
(* (ChatAnthropic, BrowserConfig, Browser, Agent, the browser context and  *)
(* its pages).  Every call into the delegate either returns or raises.     *)
(***************************************************************************)
EXTENDS Integers, Sequences, FiniteSets, TLC

VARIABLES
    pc,             \* position in main() / perform_login()
    argv,           \* parsed command line: vendor, login_url, no_headless
    env,            \* os.environ: a function from the names that are set
    username,       \* perform_login argument
    password,       \* perform_login argument
    api_key,        \* local of perform_login
    task,           \* local: the task text handed to the agent
    history,        \* local: the agent's run history
    context,        \* local: the browser context (or None)
    cookies_raw,    \* local: the cookies as the context returned them
    cookies,        \* local: the normalised cookie list
    page,           \* local: the page that is captured
    screenshots,    \* local: base64 screenshots
    final_url,      \* local
    login_success,  \* local
    exc,            \* the message of the exception being handled, or None
    result,         \* the AILoginResult perform_login returned
    stdout,         \* the lines written on standard output
    exit_code,      \* the process exit status, -1 while running
    calls           \* number of calls made on each delegate operation

vars == << pc, argv, env, username, password, api_key, task, history, context,
           cookies_raw, cookies, page, screenshots, final_url, login_success, exc, result,
           stdout, exit_code, calls >>

\* ---------------------------------------------------------------- bounds

MaxHistory == 1
MaxPages == 1
MaxCookies == 1

\* ---------------------------------------------------------------- text

\* text values (messages) are sequences of parts; None is a value of its own
None == << "<None>" >>

LoginsPath == << "/", "l", "o", "g", "i", "n", "s" >>
OTP == << "O", "T", "P" >>
Verification == << "v", "e", "r", "i", "f", "i", "c", "a", "t", "i", "o", "n" >>
MyPage == << "マ", "イ", "ペ", "ー", "ジ" >>
\* the two characters U+6210 U+529F ("success"), one element per character
Seikou == << "U+6210", "U+529F" >>

\* the indicator list of the classifier, in order
Indicators == << OTP, Verification, MyPage, Seikou >>

\* Python's `sub in s` on strings
Contains(sub, s) ==
    \E i \in 0..(Len(s) - Len(sub)) : SubSeq(s, i + 1, i + Len(sub)) = sub

SeqsUpTo(S, n) == UNION { [1..k -> S] : k \in 0..n }

\* ---------------------------------------------------------------- inputs

Vendors == { "ibj", "acme" }
LoginUrl == << "h", "/", "l", "o", "g", "i", "n", "s" >>

EnvNames == { "ANTHROPIC_API_KEY", "IBJ_USERNAME", "IBJ_PASSWORD" }
EnvValues ==
    [ ANTHROPIC_API_KEY |-> { "", "sk-key" },
      IBJ_USERNAME |-> { "", "user" },
      IBJ_PASSWORD |-> { "", "secret" } ]

\* every environment the process can be started in: each of the three
\* variables unset, empty or set; _AI_LOGIN_PASSWORD is not set by the caller
Environments ==
    UNION { { e \in [D -> { "", "sk-key", "user", "secret" }] :
                \A k \in D : e[k] \in EnvValues[k] } : D \in SUBSET EnvNames }

\* os.environ.get(name, default)
EnvGet(e, name, default) == IF name \in DOMAIN e THEN e[name] ELSE default

\* os.environ[name] = value
EnvSet(e, name, value) ==
    [ k \in DOMAIN e \cup { name } |-> IF k = name THEN value ELSE e[k] ]

\* os.environ.pop(name, None)
EnvPop(e, name) == [ k \in DOMAIN e \ { name } |-> e[k] ]

\* page URLs the portal can end on
Urls ==
    { << "h" >> \o LoginsPath,
      << "h" >> \o LoginsPath \o << "/", "o", "t", "p" >>,
      << "h", "/", "l", "o", "g", "i", "n" >>,
      << "h", "/", "m", "y", "p", "a", "g", "e" >> }

AboutBlank == << "a", "b", "o", "u", "t", ":", "b", "l", "a", "n", "k" >>

\* narration entries the agent can leave in its history
Narrations ==
    { OTP,
      << "o", "t", "p" >>,
      << "O", "T" >>,
      << "P" >>,
      Verification,
      << "x" >> \o MyPage,
      Seikou \o << "!" >>,
      << "f", "a", "i", "l", "e", "d" >> }

Histories == SeqsUpTo(Narrations, MaxHistory)

RECURSIVE Join(_)
Join(h) ==
    IF h = << >> THEN << >>
    ELSE IF Len(h) = 1 THEN h[1]
    ELSE h[1] \o << ",", " " >> \o Join(Tail(h))

\* str(history): the entries, separated, inside the object's brackets
Str(h) == << "[" >> \o Join(h) \o << "]" >>

\* cookies as the browser context hands them out
CookieKeys ==
    { "name", "value", "domain", "path", "expires", "httpOnly", "secure", "sameSite" }

FullFields ==
    ( "name" :> "sid" @@ "value" :> "abc" @@ "domain" :> "portal" @@
      "path" :> "/app" @@ "expires" :> 1700000000 @@ "httpOnly" :> TRUE @@
      "secure" :> TRUE @@ "sameSite" :> "Strict" )

BareFields == ( "name" :> "sid" @@ "value" :> "abc" @@ "domain" :> "portal" )

PartFields ==
    ( "name" :> "tok" @@ "value" :> "xyz" @@ "domain" :> "portal" @@
      "path" :> "/" @@ "secure" :> TRUE @@ "expires" :> 0 )

RawCookies ==
    { [ style |-> "mapping", fields |-> FullFields ],
      [ style |-> "mapping", fields |-> BareFields ],
      [ style |-> "mapping", fields |-> PartFields ],
      [ style |-> "attribute", fields |-> FullFields ] }

CookieJars == SeqsUpTo(RawCookies, MaxCookies)

Pages == [ url : Urls ]

NoContext == [ exists |-> FALSE, pages |-> << >> ]
Contexts ==
    { NoContext } \cup [ exists : { TRUE }, pages : SeqsUpTo(Pages, MaxPages) ]

NoPage == [ url |-> << >> ]

\* ---------------------------------------------------------------- AILoginResult

\* AILoginResult.__init__; an omitted cookies / screenshots argument is << >>
\* (`cookies or []`), an omitted error is None
AILoginResult(success, cks, error, shots) ==
    [ success |-> success, cookies |-> cks, error |-> error, screenshots |-> shots ]

\* to_dict writing the error key on every result
to_dict_always_error(r) ==
    LET keys == { "success", "error" }
                \cup (IF r.success THEN { "cookies" } ELSE { })
                \cup (IF r.screenshots # << >> THEN { "screenshots" } ELSE { })
    IN  [ k \in keys |-> r[k] ]

\* AILoginResult.to_dict
to_dict(r) ==
    LET keys == { "success" }
                \cup (IF r.success THEN { "cookies" } ELSE { "error" })
                \cup (IF r.screenshots # << >> THEN { "screenshots" } ELSE { })
    IN  [ k \in keys |-> r[k] ]

\* json.dumps of the result dictionary: one line holding one JSON object
json_dumps(d) ==
    [ k \in DOMAIN d |->
        IF k = "success" THEN (IF d[k] THEN "true" ELSE "false")
        ELSE IF k = "error" /\ d[k] = None THEN << "null" >>
        ELSE d[k] ]

\* ---------------------------------------------------------------- helpers of perform_login

CredentialsError ==
    << "Credentials not provided (IBJ_USERNAME or IBJ_PASSWORD missing)" >>
ApiKeyError == << "ANTHROPIC_API_KEY not set in environment" >>
StillOnLoginError ==
    << "Login did not complete successfully - still on login page" >>
UnsupportedVendor(vendor) == << "Unsupported vendor: ", vendor >>

\* the credentials test with `and` in place of `or`
CredentialsMissing_and(user, pw) == user = "" /\ pw = ""

\* `not username or not password`
CredentialsMissing(user, pw) == user = "" \/ pw = ""

\* `not api_key`
ApiKeyMissing(key) == key = ""

\* a vendor dispatch that lets every non-empty key through
SupportedVendor_any(vendor) == vendor # ""

\* `vendor == "ibj"`
SupportedVendor(vendor) == vendor = "ibj"

\* get_ibj_login_task: the prompt names the login URL and the username; the
\* password is not part of the text
get_ibj_login_task(user, login_url) ==
    [ login_url |-> login_url, username |-> user, password_from_env |-> FALSE ]

\* c.get(key, default) on one raw cookie of mapping style
CookieGet(c, key, default) ==
    IF key \in DOMAIN c.fields THEN c.fields[key] ELSE default

DefaultExpires == -1

\* the cookie dictionary with the session-cookie default lost
NormaliseCookie_expires0(c) ==
    ( "name" :> CookieGet(c, "name", "") @@
      "value" :> CookieGet(c, "value", "") @@
      "domain" :> CookieGet(c, "domain", "") @@
      "path" :> CookieGet(c, "path", "/") @@
      "expires" :> CookieGet(c, "expires", 0) @@
      "httpOnly" :> CookieGet(c, "httpOnly", FALSE) @@
      "secure" :> CookieGet(c, "secure", FALSE) @@
      "sameSite" :> CookieGet(c, "sameSite", "Lax") )

\* the dictionary built for one raw cookie
NormaliseCookie(c) ==
    ( "name" :> CookieGet(c, "name", "") @@
      "value" :> CookieGet(c, "value", "") @@
      "domain" :> CookieGet(c, "domain", "") @@
      "path" :> CookieGet(c, "path", "/") @@
      "expires" :> CookieGet(c, "expires", DefaultExpires) @@
      "httpOnly" :> CookieGet(c, "httpOnly", FALSE) @@
      "secure" :> CookieGet(c, "secure", FALSE) @@
      "sameSite" :> CookieGet(c, "sameSite", "Lax") )

\* an attribute-style cookie object has no get(): the comprehension raises
HasGet(c) == c.style = "mapping"

\* base64.b64encode(screenshot_bytes).decode("utf-8")
b64encode(bytes) == << "base64", bytes >>

\* final_url as computed from the context
FinalUrlOf(ctx) ==
    IF ctx.exists /\ ctx.pages # << >> THEN ctx.pages[1].url ELSE << >>

\* the success inference without the test that a final URL was obtained
LoginSuccess_no_url_test(url, h) ==
    IF ~Contains(LoginsPath, url) THEN TRUE
    ELSE IF \E i \in 1..Len(Indicators) : Contains(Indicators[i], Str(h)) THEN TRUE
    ELSE FALSE

\* the success inference on the final URL and the agent history
LoginSuccess(url, h) ==
    IF url # << >> /\ ~Contains(LoginsPath, url) THEN TRUE
    ELSE IF \E i \in 1..Len(Indicators) : Contains(Indicators[i], Str(h)) THEN TRUE
    ELSE FALSE

\* the result returned once the browser is closed
ClassifiedResult(ok, cks, shots) ==
    IF ok THEN AILoginResult(TRUE, cks, None, shots)
    ELSE AILoginResult(FALSE, << >>, StillOnLoginError, shots)

\* the result of the outermost exception handler
ExceptionResult(msg, shots) == AILoginResult(FALSE, << >>, msg, shots)

\* an exit status that ignores the result
ExitCode_zero(r) == 0

\* sys.exit(0 if result.success else 1)
ExitCode(r) == IF r.success THEN 0 ELSE 1

\* ---------------------------------------------------------------- delegate

DelegateOps ==
    { "ChatAnthropic", "BrowserConfig", "Browser", "Agent", "agent.run",
      "browser.get_context", "context.cookies", "context.new_page",
      "page.screenshot", "page.url", "browser.close" }

\* the AttributeError of calling get() on an attribute-style cookie
NoGetError == << "object has no attribute 'get'" >>

\* messages of the exceptions the delegate raises, by operation
Raised(op) == << "error in ", op >>

Call(op) == calls' = [ calls EXCEPT ![op] = @ + 1 ]

\* ---------------------------------------------------------------- state machine

NoResult == AILoginResult(FALSE, << >>, None, << >>)
NoTask == [ login_url |-> << >>, username |-> "", password_from_env |-> FALSE ]

Init ==
    /\ pc = "main"
    /\ argv \in [ vendor : Vendors, login_url : { LoginUrl } ]
    /\ env \in Environments
    /\ username = ""
    /\ password = ""
    /\ api_key = ""
    /\ task = NoTask
    /\ history = << >>
    /\ context = NoContext
    /\ cookies_raw = << >>
    /\ cookies = << >>
    /\ page = NoPage
    /\ screenshots = << >>
    /\ final_url = << >>
    /\ login_success = FALSE
    /\ exc = None
    /\ result = NoResult
    /\ stdout = << >>
    /\ exit_code = -1
    /\ calls = [ op \in DelegateOps |-> 0 ]

\* locals of perform_login that only the extraction steps assign
extraction == << history, context, cookies_raw, cookies, page, screenshots, final_url, login_success >>
\* what main() owns
process == << argv, stdout, exit_code >>

\* an exception leaves the try block for the outermost handler
Raise(op) ==
    /\ pc' = "except"
    /\ exc' = Raised(op)

\* main: credentials are read from the environment and perform_login is entered
Main ==
    /\ pc = "main"
    /\ username' = EnvGet(env, "IBJ_USERNAME", "")
    /\ password' = EnvGet(env, "IBJ_PASSWORD", "")
    /\ pc' = "validate"
    /\ UNCHANGED << env, api_key, task, exc, result, calls, extraction, process >>

\* perform_login: `if not username or not password`
ValidateCredentials ==
    /\ pc = "validate"
    /\ IF CredentialsMissing(username, password)
       THEN /\ result' = AILoginResult(FALSE, << >>, CredentialsError, << >>)
            /\ pc' = "print"
       ELSE /\ pc' = "check_api_key"
            /\ UNCHANGED result
    /\ UNCHANGED << env, username, password, api_key, task, exc, calls,
                    extraction, process >>

\* perform_login: `api_key = os.environ.get(...)`, `if not api_key`
CheckApiKey ==
    /\ pc = "check_api_key"
    /\ api_key' = EnvGet(env, "ANTHROPIC_API_KEY", "")
    /\ IF ApiKeyMissing(api_key')
       THEN /\ result' = AILoginResult(FALSE, << >>, ApiKeyError, << >>)
            /\ pc' = "print"
       ELSE /\ pc' = "init_llm"
            /\ UNCHANGED result
    /\ UNCHANGED << env, username, password, task, exc, calls, extraction, process >>

\* a constructor of the delegate: it returns, or raises into the handler
Construct(at, op, next) ==
    /\ pc = at
    /\ Call(op)
    /\ \/ pc' = next /\ UNCHANGED exc
       \/ Raise(op)
    /\ UNCHANGED << env, username, password, api_key, task, result,
                    extraction, process >>

InitLLM == Construct("init_llm", "ChatAnthropic", "browser_config")
ConfigureBrowser == Construct("browser_config", "BrowserConfig", "create_browser")
CreateBrowser == Construct("create_browser", "Browser", "set_password")

\* os.environ["_AI_LOGIN_PASSWORD"] = password
SetPassword ==
    /\ pc = "set_password"
    /\ env' = EnvSet(env, "_AI_LOGIN_PASSWORD", password)
    /\ pc' = "get_task"
    /\ UNCHANGED << username, password, api_key, task, exc, result, calls,
                    extraction, process >>

\* the vendor dispatch; the task then gets the password instruction appended
GetTask ==
    /\ pc = "get_task"
    /\ IF SupportedVendor(argv.vendor)
       THEN /\ task' = [ get_ibj_login_task(username, argv.login_url)
                           EXCEPT !.password_from_env = TRUE ]
            /\ pc' = "create_agent"
            /\ UNCHANGED result
       ELSE /\ result' = AILoginResult(FALSE, << >>, UnsupportedVendor(argv.vendor), << >>)
            /\ pc' = "print"
            /\ UNCHANGED task
    /\ UNCHANGED << env, username, password, api_key, exc, calls, extraction, process >>

CreateAgent == Construct("create_agent", "Agent", "run_agent")

\* history = await agent.run(max_steps=30)
RunAgent ==
    /\ pc = "run_agent"
    /\ Call("agent.run")
    /\ \/ /\ history' \in Histories
          /\ pc' = "get_context"
          /\ UNCHANGED exc
       \/ /\ Raise("agent.run")
          /\ UNCHANGED history
    /\ UNCHANGED << env, username, password, api_key, task, result, context,
                    cookies_raw, cookies, page, screenshots, final_url, login_success, process >>

\* context = await browser.get_context(); without a context cookies = []
GetContext ==
    /\ pc = "get_context"
    /\ Call("browser.get_context")
    /\ \/ /\ context' \in Contexts
          /\ IF context'.exists
             THEN pc' = "get_cookies" /\ UNCHANGED cookies
             ELSE pc' = "read_url" /\ cookies' = << >>
          /\ UNCHANGED exc
       \/ /\ Raise("browser.get_context")
          /\ UNCHANGED << context, cookies >>
    /\ UNCHANGED << env, username, password, api_key, task, result, history,
                    cookies_raw, page, screenshots, final_url, login_success, process >>

\* cookies_raw = await context.cookies() and the comprehension over it
GetCookies ==
    /\ pc = "get_cookies"
    /\ Call("context.cookies")
    /\ \/ /\ cookies_raw' \in CookieJars
          /\ IF \A i \in 1..Len(cookies_raw') : HasGet(cookies_raw'[i])
             THEN /\ cookies' = [ i \in 1..Len(cookies_raw') |->
                                    NormaliseCookie(cookies_raw'[i]) ]
                  /\ pc' = "get_page"
                  /\ UNCHANGED exc
             ELSE /\ pc' = "except"
                  /\ exc' = NoGetError
                  /\ UNCHANGED cookies
       \/ /\ Raise("context.cookies")
          /\ UNCHANGED << cookies_raw, cookies >>
    /\ UNCHANGED << env, username, password, api_key, task, result, history,
                    context, page, screenshots, final_url, login_success, process >>

\* page = await context.new_page() if not context.pages else context.pages[0]
\* (whether the context lists the page it has just opened is the library's)
GetPage ==
    /\ pc = "get_page"
    /\ IF context.pages # << >>
       THEN /\ page' = context.pages[1]
            /\ pc' = "screenshot"
            /\ UNCHANGED << context, exc, calls >>
       ELSE /\ Call("context.new_page")
            /\ \/ /\ page' = [ url |-> AboutBlank ]
                  /\ \/ context' = [ context EXCEPT !.pages = << page' >> ]
                     \/ UNCHANGED context
                  /\ pc' = "screenshot"
                  /\ UNCHANGED exc
               \/ /\ Raise("context.new_page")
                  /\ UNCHANGED << page, context >>
    /\ UNCHANGED << env, username, password, api_key, task, result, history,
                    cookies_raw, cookies, screenshots, final_url, login_success,
                    process >>

\* the screenshot try block: a failure is passed over
TakeScreenshot ==
    /\ pc = "screenshot"
    /\ Call("page.screenshot")
    /\ \/ screenshots' = Append(screenshots, b64encode("png"))
       \/ UNCHANGED screenshots
    /\ pc' = "read_url"
    /\ UNCHANGED << env, username, password, api_key, task, exc, result, history,
                    context, cookies_raw, cookies, page, final_url, login_success,
                    process >>

\* final_url = "" and, with a context that has pages, context.pages[0].url
ReadFinalUrl ==
    /\ pc = "read_url"
    /\ IF context.exists /\ context.pages # << >>
       THEN /\ Call("page.url")
            /\ \/ /\ final_url' = FinalUrlOf(context)
                  /\ pc' = "classify"
                  /\ UNCHANGED exc
               \/ /\ Raise("page.url")
                  /\ final_url' = << >>
       ELSE /\ final_url' = FinalUrlOf(context)
            /\ pc' = "classify"
            /\ UNCHANGED << exc, calls >>
    /\ UNCHANGED << env, username, password, api_key, task, result, history,
                    context, cookies_raw, cookies, page, screenshots, login_success,
                    process >>

\* login_success from the final URL and the history
Classify ==
    /\ pc = "classify"
    /\ login_success' = LoginSuccess(final_url, history)
    /\ pc' = "close"
    /\ UNCHANGED << env, username, password, api_key, task, exc, result, calls,
                    history, context, cookies_raw, cookies, page, screenshots,
                    final_url, process >>

\* await browser.close()
CloseBrowser ==
    /\ pc = "close"
    /\ Call("browser.close")
    /\ \/ pc' = "cleanup" /\ UNCHANGED exc
       \/ Raise("browser.close")
    /\ UNCHANGED << env, username, password, api_key, task, result,
                    extraction, process >>

\* the password is popped from the environment and the result is returned
CleanupAndReturn ==
    /\ pc = "cleanup"
    /\ env' = EnvPop(env, "_AI_LOGIN_PASSWORD")
    /\ result' = ClassifiedResult(login_success, cookies, screenshots)
    /\ pc' = "print"
    /\ UNCHANGED << username, password, api_key, task, exc, calls,
                    extraction, process >>

\* except Exception as e
HandleException ==
    /\ pc = "except"
    /\ env' = EnvPop(env, "_AI_LOGIN_PASSWORD")
    /\ result' = ExceptionResult(exc, screenshots)
    /\ pc' = "print"
    /\ UNCHANGED << username, password, api_key, task, exc, calls,
                    extraction, process >>

\* main: print(json.dumps(result.to_dict()))
PrintResult ==
    /\ pc = "print"
    /\ stdout' = Append(stdout, json_dumps(to_dict(result)))
    /\ pc' = "exit"
    /\ UNCHANGED << argv, exit_code, env, username, password, api_key, task,
                    exc, result, calls, extraction >>

\* main: sys.exit(0 if result.success else 1)
Exit ==
    /\ pc = "exit"
    /\ exit_code' = ExitCode(result)
    /\ pc' = "done"
    /\ UNCHANGED << argv, stdout, env, username, password, api_key, task,
                    exc, result, calls, extraction >>

Next ==
    \/ Main
    \/ ValidateCredentials
    \/ CheckApiKey
    \/ InitLLM
    \/ ConfigureBrowser
    \/ CreateBrowser
    \/ SetPassword
    \/ GetTask
    \/ CreateAgent
    \/ RunAgent
    \/ GetContext
    \/ GetCookies
    \/ GetPage
    \/ TakeScreenshot
    \/ ReadFinalUrl
    \/ Classify
    \/ CloseBrowser
    \/ CleanupAndReturn
    \/ HandleException
    \/ PrintResult
    \/ Exit

Spec == Init /\ [][Next]_vars

\* ---------------------------------------------------------------- properties

\* perform_login has returned to main
Returned == pc \in { "print", "exit", "done" }

\* the invocation's inputs, read off the environment and the command line
InUsername == EnvGet(env, "IBJ_USERNAME", "")
InPassword == EnvGet(env, "IBJ_PASSWORD", "")
InApiKey == EnvGet(env, "ANTHROPIC_API_KEY", "")
NoCredentials == InUsername = "" \/ InPassword = ""
NoApiKey == ~NoCredentials /\ InApiKey = ""
NoDelegateCall == \A op \in DelegateOps : calls[op] = 0

\* C1: with the username or the password empty the result is the failure
\* carrying the credentials message; otherwise, with ANTHROPIC_API_KEY unset or
\* empty, it is the failure carrying the API-key message; in both cases the
\* exit code is 1 and no operation of the delegate is ever called.
C1_PreconditionShortCircuit ==
    /\ (NoCredentials \/ NoApiKey) => NoDelegateCall
    /\ (Returned /\ NoCredentials) =>
           /\ ~result.success
           /\ result.error = CredentialsError
    /\ (Returned /\ NoApiKey) =>
           /\ ~result.success
           /\ result.error = ApiKeyError
    /\ (pc = "done" /\ (NoCredentials \/ NoApiKey)) => exit_code = 1

C1_Witness ==
    /\ pc = "done"
    /\ InUsername # "" /\ InPassword # ""
    /\ "ANTHROPIC_API_KEY" \in DOMAIN env /\ InApiKey = ""
    /\ result.error = ApiKeyError
    /\ exit_code = 1

\* C2 as stated: for every vendor key other than 'ibj' the result is the
\* failure "Unsupported vendor: <key>", the agent is never constructed or run
\* and the exit code is 1.
C2_UnsupportedVendor_AsStated ==
    (pc = "done" /\ argv.vendor # "ibj") =>
        /\ ~result.success
        /\ result.error = UnsupportedVendor(argv.vendor)
        /\ calls["Agent"] = 0 /\ calls["agent.run"] = 0
        /\ exit_code = 1

\* C2 as amended: for a vendor key other than 'ibj' the agent is never
\* constructed or run and the exit code is 1; when the credentials and the
\* API key are present the result is a failure whose error is "Unsupported
\* vendor: <key>", unless constructing the LLM client, the browser
\* configuration or the browser raised, and then it is that exception's message.
C2_UnsupportedVendor ==
    argv.vendor # "ibj" =>
        /\ calls["Agent"] = 0 /\ calls["agent.run"] = 0
        /\ pc = "done" => exit_code = 1
        /\ (Returned /\ ~NoCredentials /\ InApiKey # "") =>
               /\ ~result.success
               /\ exc = None => result.error = UnsupportedVendor(argv.vendor)
               /\ exc # None =>
                      /\ exc \in { Raised("ChatAnthropic"), Raised("BrowserConfig"),
                                   Raised("Browser") }
                      /\ result.error = exc

C2_Witness ==
    /\ pc = "done"
    /\ argv.vendor = "acme"
    /\ calls["Browser"] = 1
    /\ result.error = UnsupportedVendor("acme")
    /\ exit_code = 1

\* the Browser constructor was called and returned
BrowserConstructed == calls["Browser"] = 1 /\ exc # Raised("Browser")

\* C3: in every execution of perform_login in which the browser was
\* constructed, close is called on it exactly once before the result is
\* returned.
C3_BrowserReleased ==
    (Returned /\ BrowserConstructed) => calls["browser.close"] = 1

\* the classifier's rule, read off the final URL and the history text
HasMarker(text) ==
    \/ Contains(OTP, text)
    \/ Contains(Verification, text)
    \/ Contains(MyPage, text)
    \/ Contains(Seikou, text)
RuleSuccess ==
    \/ final_url # << >> /\ ~Contains(LoginsPath, final_url)
    \/ HasMarker(Str(history))

\* the classifier has run / perform_login returned through the classifier
Classified == pc \in { "close", "cleanup" } \/ calls["browser.close"] = 1
ReturnedClassified == Returned /\ calls["browser.close"] = 1 /\ exc = None

\* C4: the verdict is success when the final URL is non-empty and does not
\* contain '/logins', else success when the history text contains one of the
\* four markers, else failure with the 'still on login page' message; a final
\* URL containing '/logins' with a marker-free history fails and an empty
\* final URL with 'OTP' in the history succeeds.
C4_OutcomeClassification ==
    /\ Classified => (login_success <=> RuleSuccess)
    /\ ReturnedClassified =>
           /\ result.success <=> RuleSuccess
           /\ ~RuleSuccess => result.error = StillOnLoginError
           /\ (Contains(LoginsPath, final_url) /\ ~HasMarker(Str(history)))
                  => ~result.success
           /\ (final_url = << >> /\ Contains(OTP, Str(history))) => result.success

C4_Witness ==
    /\ pc = "done"
    /\ final_url = << >>
    /\ Contains(OTP, Str(history))
    /\ result.success
    /\ exit_code = 0

\* C5: every invocation ends with exactly one JSON object on standard output
\* and then an exit code that is 0 exactly when the object's success is true
\* and 1 otherwise; no path stops before that.
C5_OneObjectAndExitCode ==
    /\ pc # "done" => (exit_code = -1 /\ ENABLED Next)
    /\ pc \in { "exit", "done" } <=> Len(stdout) = 1
    /\ Len(stdout) <= 1
    /\ pc = "done" =>
           /\ exit_code \in { 0, 1 }
           /\ exit_code = 0 <=> stdout[1]["success"] = "true"

C5_Witness ==
    /\ pc = "done"
    /\ exc = Raised("agent.run")
    /\ Len(stdout) = 1
    /\ stdout[1]["success"] = "false"
    /\ exit_code = 1

\* C6: the serialized result holds exactly one of the keys 'cookies' and
\* 'error': 'cookies' exactly when success is true, 'error' exactly when it
\* is false.
C6_CookiesXorError ==
    /\ Returned =>
           LET d == to_dict(result)
           IN  /\ "cookies" \in DOMAIN d <=> result.success
               /\ "error" \in DOMAIN d <=> ~result.success
    /\ \A i \in 1..Len(stdout) :
           /\ "cookies" \in DOMAIN stdout[i] <=> stdout[i]["success"] = "true"
           /\ "error" \in DOMAIN stdout[i] <=> stdout[i]["success"] = "false"

C6_Witness ==
    /\ pc = "done"
    /\ "cookies" \in DOMAIN stdout[1]
    /\ "error" \notin DOMAIN stdout[1]
    /\ Len(stdout[1]["cookies"]) = 1

\* the failures of the extraction steps the claim names
ExtractionFailures ==
    { Raised("context.cookies"), Raised("context.new_page"), Raised("page.url") }

\* C7: once the agent run has completed, a failed cookie retrieval, a failed
\* screenshot (obtaining the page included) or a failed final-URL read never
\* reaches the result: the classifier decides it.
C7_SoftFailuresAbsorbed ==
    /\ pc = "except" => exc \notin ExtractionFailures
    /\ Returned => result.error \notin ExtractionFailures

\* C8: a failing close never becomes the result's error and never changes the
\* success flag: the result is the classifier's verdict.
C8_CloseFailureSwallowed ==
    (Returned /\ calls["browser.close"] = 1) =>
        /\ result.error # Raised("browser.close")
        /\ result.success <=> login_success

Expected(raw, key) ==
    IF key \in DOMAIN raw.fields THEN raw.fields[key]
    ELSE CASE key = "path" -> "/"
           [] key = "expires" -> -1
           [] key = "sameSite" -> "Lax"
           [] key \in { "httpOnly", "secure" } -> FALSE
           [] OTHER -> ""

C10_PasswordRemoved ==
    Returned => "_AI_LOGIN_PASSWORD" \notin DOMAIN env

====
